---- MODULE Spec2Model ----
(***************************************************************************)
(* Model of the dashboard's data layer:                                    *)
(*   dashboard-th/utils/elk_connector.py   ELKConnector                    *)
(*   dashboard-th/pages/Detail_Analisis.py the Detail page script          *)
(*   Home.py                               the top-level page script       *)
(*                                                                         *)
(* Encoding of Python values:                                              *)
(*   - an optional dictionary entry is <<>> (key absent) or <<v>>;         *)
(*   - None is the string None_ (never a value a backend string takes);    *)
(*   - a point in time is a day number; a raw timestamp of a document is   *)
(*     a record [kind, day] with kind "iso" (an ISO string of that day),   *)
(*     "garbage" (a string no parser accepts) or "none" (null);            *)
(*   - an exception is a result with raised = TRUE, so that a try/except   *)
(*     is something the model computes and a check can refute.             *)
(***************************************************************************)
EXTENDS Integers, Sequences, FiniteSets, TLC

VARIABLES
    conn,        \* the ELKConnector object: [exists, id, es, connected, raised]
    probe,       \* what Elasticsearch(...) and ping() did when conn was constructed
    now,         \* datetime.now(), in days
    last,        \* the last get_data call: its inputs, the search issued and what it returned
    source,      \* Record Normalizer: one backend document (hit['_source'])
    flat_data,   \* Record Normalizer: the flat record built from it
    pc,          \* where the page script is: "idle", "fetch", "render" or "done"
    page,        \* which page script ran last: "none", "home" or "detail"
    event,       \* the interaction that triggered the last script run
    time_range,  \* the selectbox value of the page
    df,          \* the Dataset the page holds
    selection,   \* Detail page: [sectors, severities, orgs], the multiselect values
    view,        \* what the last script run computed and rendered
    runs,        \* [constructions, get_data_calls, filter_changes] since the last time-range change
    column,      \* Top-N: the column value_counts is applied to
    head_n,      \* Top-N: the argument of head
    top          \* Top-N: the resulting table

vars == <<conn, probe, now, last, source, flat_data, pc, page, event, time_range, df,
          selection, view, runs, column, head_n, top>>

connVars == <<conn, probe, now, last>>
normVars == <<source, flat_data>>
pageVars == <<pc, page, event, time_range, df, selection, view, runs>>
topVars == <<column, head_n, top>>

----------------------------------------------------------------------------
(* Bounds of the model *)

MaxNow == 2          \* the clock runs over days 0..MaxNow
MaxConn == 2         \* connectors constructed in one behaviour
MaxHits == 2         \* hits in one backend response
MaxDocKeys == 2      \* keys present in a document given to the normalizer
MockRows == 1        \* rows of a synthetic Dataset (the code generates 1000)
MaxCol == 7          \* length of a column given to value_counts
MaxSmallN == 2       \* head(n) is also applied for n in 1..MaxSmallN
MaxFilterChanges == 1 \* filter changes between two time-range changes

----------------------------------------------------------------------------
(* Python values *)

None_ == "<None>"
UNKNOWN == "UNKNOWN"

Absent == <<>>
Some(v) == <<v>>

\* dict.get(key, default)
Get(d, key, default) == IF d[key] = Absent THEN default ELSE d[key][1]

Range(s) == {s[i] : i \in DOMAIN s}

----------------------------------------------------------------------------
(* Time-range tokens and the query of get_data *)

Tokens == {"7d", "30d", "90d", "1y", "All"}

\* datetime.isoformat(): the text of a point in time
IsoFormat(t) == [kind |-> "iso", day |-> t]

QuerySize == 10000

SourceFields == <<"@timestamp", "Severity.keyword", "Sektor.keyword",
                  "Organisasi.keyword", "Vuln.keyword", "Source.keyword",
                  "Target.keyword", "Score", "hasCisa", "IPAddresses.keyword">>

\* timedelta(days=...) selected by the if/elif/else chain on time_range
DeltaDaysWrong(token) ==
    IF token = "7d" THEN 7
    ELSE IF token = "30d" THEN 30
    ELSE IF token = "90d" THEN 60
    ELSE 365

DeltaDays(token) ==
    IF token = "7d" THEN 7
    ELSE IF token = "30d" THEN 30
    ELSE IF token = "90d" THEN 90
    ELSE 365

\* the query body: a range on @timestamp, always with both ends
BuildQuery(token, end_date) ==
    LET start_date == end_date - DeltaDays(token)
    IN  [size |-> QuerySize,
         range |-> [field |-> "@timestamp",
                    gte |-> Some(IsoFormat(start_date)),
                    lte |-> Some(IsoFormat(end_date))],
         _source |-> SourceFields]

NoQuery == [size |-> 0,
            range |-> [field |-> "", gte |-> Absent, lte |-> Absent],
            _source |-> <<>>]

----------------------------------------------------------------------------
(* Backend documents and the Record Normalizer *)

CatFields == <<"Severity", "Sektor", "Organisasi", "Vuln", "Source", "Target",
               "IPAddresses">>

Keyword(field) ==
    CASE field = "Severity" -> "Severity.keyword"
      [] field = "Sektor" -> "Sektor.keyword"
      [] field = "Organisasi" -> "Organisasi.keyword"
      [] field = "Vuln" -> "Vuln.keyword"
      [] field = "Source" -> "Source.keyword"
      [] field = "Target" -> "Target.keyword"
      [] field = "IPAddresses" -> "IPAddresses.keyword"

CatKeys == Range(CatFields) \cup {Keyword(f) : f \in Range(CatFields)}

DocKeys == {"@timestamp", "Score", "hasCisa"} \cup CatKeys

EmptyDoc == [k \in DocKeys |-> Absent]

\* get_val: the keyword field, else the text field, else "UNKNOWN"
get_val_plain_first(src, field) == Get(src, field, Get(src, Keyword(field), UNKNOWN))

get_val(src, field) == Get(src, Keyword(field), Get(src, field, UNKNOWN))

TsNone == [kind |-> "none", day |-> 0]

\* flat_data of one hit
FlatData(src) ==
    [ts |-> Get(src, "@timestamp", TsNone),
     Severity |-> get_val(src, "Severity"),
     Sektor |-> get_val(src, "Sektor"),
     Organisasi |-> get_val(src, "Organisasi"),
     Vuln |-> get_val(src, "Vuln"),
     Source |-> get_val(src, "Source"),
     Target |-> get_val(src, "Target"),
     Score |-> Get(src, "Score", 0),
     hasCisa |-> Get(src, "hasCisa", FALSE),
     IPAddresses |-> get_val(src, "IPAddresses")]

\* the field of a flat record by name
Field(row, field) ==
    CASE field = "Severity" -> row.Severity
      [] field = "Sektor" -> row.Sektor
      [] field = "Organisasi" -> row.Organisasi
      [] field = "Vuln" -> row.Vuln
      [] field = "Source" -> row.Source
      [] field = "Target" -> row.Target
      [] field = "IPAddresses" -> row.IPAddresses

\* pd.to_datetime on one value: a datetime, NaT for None, or a parse error
Parseable(ts) == ts.kind # "garbage"

ToDatetime(ts) ==
    IF ts.kind = "iso" THEN [kind |-> "datetime", day |-> ts.day]
    ELSE [kind |-> "NaT", day |-> 0]

----------------------------------------------------------------------------
(* _generate_mock_data *)

sectors == <<"Administrasi Pemerintahan", "Keuangan", "Transportasi", "Pangan",
             "ESDM", "Kesehatan", "Pertahanan", "TIK", "Lainnya">>

severities == <<"CRITICAL", "HIGH", "MEDIUM", "LOW">>

orgs == <<"Kementerian Keuangan", "Kementerian Kesehatan", "BSSN",
          "Kementerian Perhubungan", "Pemda DKI Jakarta", "Pemprov Jawa Barat",
          "Bank Indonesia", "OJK", "Kementerian ESDM", "Kementerian Pertahanan">>

vulns == <<"CVE-2023-38831", "CVE-2023-44487", "CVE-2024-21413",
           "CVE-2021-44228 (Log4j)", "CVE-2023-23397", "CVE-2024-3400",
           "CVE-2023-4966 (Citrix Bleed)">>

\* The random draws of one synthetic row.  random.choice ranges over the lists
\* above; the model draws the sector and the severity from
\* two members of each list and fixes the other draws, so that a synthetic
\* Dataset varies in columns the pages group by.
MockRow(t) ==
    {[ts |-> [kind |-> "datetime", day |-> t - back],
      Severity |-> sev,
      Sektor |-> sector,
      Organisasi |-> org,
      Vuln |-> vulns[1],
      Source |-> "10.10.1.1",
      Target |-> "web-server-1",
      Score |-> 4,
      hasCisa |-> FALSE,
      IPAddresses |-> "192.168.1.1"] :
        back \in {0},
        sev \in {severities[1], severities[4]},
        sector \in {sectors[2], sectors[8]},
        org \in {orgs[1]}}

RECURSIVE SeqsOfLen(_, _)
SeqsOfLen(S, n) ==
    IF n = 0 THEN {<<>>}
    ELSE {Append(s, x) : s \in SeqsOfLen(S, n - 1), x \in S}

SeqsUpTo(S, n) == UNION {SeqsOfLen(S, k) : k \in 0..n}

\* the synthetic Datasets _generate_mock_data can return at time t
MockData(t) == SeqsOfLen(MockRow(t), MockRows)

----------------------------------------------------------------------------
(* ELKConnector *)

NoConnector == [exists |-> FALSE, id |-> 0, es |-> FALSE, connected |-> FALSE,
                raised |-> FALSE]

ClientOutcomes == {"ok", "raise"}      \* Elasticsearch(...)
PingOutcomes == {"true", "false", "raise"}   \* self.es.ping()

\* __init__ without the except clause: the exception reaches the caller
InitNoExcept(id, client, ping) ==
    IF client = "raise"
    THEN [exists |-> TRUE, id |-> id, es |-> FALSE, connected |-> FALSE,
          raised |-> TRUE]
    ELSE IF ping = "raise"
    THEN [exists |-> TRUE, id |-> id, es |-> TRUE, connected |-> FALSE,
          raised |-> TRUE]
    ELSE [exists |-> TRUE, id |-> id, es |-> TRUE, connected |-> (ping = "true"),
          raised |-> FALSE]

\* __init__: try { es = Elasticsearch(...); connected = es.ping() }
\*           except Exception { connected = False }
ELKConnectorInit(id, client, ping) ==
    IF client = "raise"
    THEN [exists |-> TRUE, id |-> id, es |-> FALSE, connected |-> FALSE,
          raised |-> FALSE]
    ELSE IF ping = "raise"
    THEN [exists |-> TRUE, id |-> id, es |-> TRUE, connected |-> FALSE,
          raised |-> FALSE]
    ELSE [exists |-> TRUE, id |-> id, es |-> TRUE, connected |-> (ping = "true"),
          raised |-> FALSE]

\* What self.es.search can do: raise (a timeout after request_timeout, or any
\* other exception), or return a body; the body may lack ['hits']['hits'], and
\* a hit may lack ['_source'].
Hit(d) == [has_source |-> TRUE, _source |-> d]
HitNoSource == [has_source |-> FALSE, _source |-> EmptyDoc]

SearchOutcomes(hitSet) ==
    {[kind |-> k, hits |-> <<>>] : k \in {"timeout", "exception", "no_hits"}}
    \cup {[kind |-> "hits", hits |-> h] : h \in SeqsUpTo(hitSet, MaxHits)}

\* the body of the try block, as far as it gets: [raised, rows]
TryBody(outcome) ==
    IF outcome.kind # "hits" THEN [raised |-> TRUE, rows |-> <<>>]
    ELSE IF \E i \in DOMAIN outcome.hits : ~outcome.hits[i].has_source
    THEN [raised |-> TRUE, rows |-> <<>>]
    ELSE LET data == [i \in DOMAIN outcome.hits |-> FlatData(outcome.hits[i]._source)]
         IN  IF data = <<>> THEN [raised |-> FALSE, rows |-> <<>>]
             ELSE IF \E i \in DOMAIN data : ~Parseable(data[i].ts)
             THEN [raised |-> TRUE, rows |-> <<>>]
             ELSE [raised |-> FALSE,
                   rows |-> [i \in DOMAIN data |->
                               [data[i] EXCEPT !.ts = ToDatetime(data[i].ts)]]]

\* get_data without the except clause
GetDataNoExcept(c, token, t, outcome, mock) ==
    IF ~c.connected
    THEN [raised |-> FALSE, searched |-> FALSE, query |-> NoQuery,
          mock |-> TRUE, rows |-> mock]
    ELSE LET body == TryBody(outcome)
         IN  [raised |-> body.raised, searched |-> TRUE,
              query |-> BuildQuery(token, t), mock |-> FALSE, rows |-> body.rows]

\* get_data(time_range) on connector c at time t, when the backend does
\* `outcome` and the random draws of _generate_mock_data give `mock`
GetData(c, token, t, outcome, mock) ==
    IF ~c.connected
    THEN [raised |-> FALSE, searched |-> FALSE, query |-> NoQuery,
          mock |-> TRUE, rows |-> mock]
    ELSE LET body == TryBody(outcome)
         IN  IF body.raised
             THEN [raised |-> FALSE, searched |-> TRUE,
                   query |-> BuildQuery(token, t), mock |-> TRUE, rows |-> mock]
             ELSE [raised |-> FALSE, searched |-> TRUE,
                   query |-> BuildQuery(token, t), mock |-> FALSE,
                   rows |-> body.rows]

----------------------------------------------------------------------------
(* Initial values of the parts of the state a specification does not use *)

NoCall == [called |-> FALSE, token |-> "", at |-> 0,
           outcome |-> [kind |-> "none", hits |-> <<>>],
           result |-> [raised |-> FALSE, searched |-> FALSE, query |-> NoQuery,
                       mock |-> FALSE, rows |-> <<>>]]

NoProbe == [client |-> "none", ping |-> "none"]

ConnIdle == conn = NoConnector /\ probe = NoProbe /\ now = 0 /\ last = NoCall

NormIdle == source = EmptyDoc /\ flat_data = Absent

NoSelection == [sectors |-> {}, severities |-> {}, orgs |-> {}]
NoHeatmap == [index |-> {}, columns |-> <<>>, cells |-> <<>>]
NoTimeline == [raised |-> FALSE, series |-> <<>>]
NoView == [rendered |-> <<>>, halted |-> FALSE, filtered |-> <<>>,
           heatmap |-> NoHeatmap,
           top_orgs |-> <<>>, top_assets |-> <<>>, top_vulns |-> <<>>,
           timeline |-> NoTimeline]
NoRuns == [constructions |-> 0, get_data_calls |-> 0, filter_changes |-> 0]

PageIdle == /\ pc = "idle" /\ page = "none" /\ event = "none" /\ time_range = ""
            /\ df = <<>> /\ selection = NoSelection /\ view = NoView
            /\ runs = NoRuns

TopIdle == column = <<>> /\ head_n = 0 /\ top = Absent

----------------------------------------------------------------------------
(* The connector on its own: construction and get_data calls *)

TsGarbage == [kind |-> "garbage", day |-> 0]

\* documents the backend returns in this specification: the timestamp is
\* missing, null, unparseable or an ISO string
ConnDocs ==
    {[EmptyDoc EXCEPT !["@timestamp"] = ts, !["Severity.keyword"] = Some("HIGH")] :
        ts \in {Absent, Some(TsNone), Some(TsGarbage), Some(IsoFormat(0))}}

ConnHits == {Hit(d) : d \in ConnDocs} \cup {HitNoSource}

Init == ConnIdle /\ NormIdle /\ PageIdle /\ TopIdle

\* connector = ELKConnector()
Construct ==
    /\ conn.id < MaxConn
    /\ ~last.called
    /\ \E client \in ClientOutcomes, ping \in PingOutcomes :
         /\ conn' = ELKConnectorInit(conn.id + 1, client, ping)
         /\ probe' = [client |-> client, ping |-> ping]
    /\ UNCHANGED <<now, last, normVars, pageVars, topVars>>

\* connector.get_data(time_range=token): the clock reads t, the backend does
\* `outcome`, the random draws give `mock`
CallGetData ==
    /\ conn.exists
    /\ ~conn.raised
    /\ ~last.called
    /\ \E token \in Tokens, t \in now..MaxNow :
         \E outcome \in SearchOutcomes(ConnHits), mock \in MockData(t) :
            /\ now' = t
            /\ last' = [called |-> TRUE, token |-> token, at |-> t,
                        outcome |-> outcome,
                        result |-> GetData(conn, token, t, outcome, mock)]
    /\ UNCHANGED <<conn, probe, normVars, pageVars, topVars>>

\* the caller is done with the Dataset of the call
Return ==
    /\ last.called
    /\ ~last.result.raised
    /\ last' = NoCall
    /\ UNCHANGED <<conn, probe, now, normVars, pageVars, topVars>>

Next == Construct \/ CallGetData \/ Return

Spec == Init /\ [][Next]_vars

----------------------------------------------------------------------------
(* Claims about the connector, checked under Spec *)

\* a failure of the search or of the normalisation of its response
BackendFailure(outcome) ==
    \/ outcome.kind \in {"timeout", "exception", "no_hits"}
    \/ /\ outcome.kind = "hits"
       /\ \E i \in DOMAIN outcome.hits :
            \/ ~outcome.hits[i].has_source
            \/ outcome.hits[i]._source["@timestamp"] = Some(TsGarbage)

\* C1: get_data never raises, for any token; and when the search or the
\* normalisation of its response fails (timeout, exception, response without
\* hits, hit without _source, unparseable timestamp) the Dataset returned is
\* one _generate_mock_data produces.
C1_GetDataNeverRaises ==
    last.called =>
        /\ ~last.result.raised
        /\ last.token \in Tokens
        /\ (conn.connected /\ BackendFailure(last.outcome)) =>
              /\ last.result.mock
              /\ last.result.rows \in MockData(last.at)

C1_Witness ==
    /\ last.called
    /\ conn.connected
    /\ last.outcome.kind = "hits"
    /\ \A i \in DOMAIN last.outcome.hits : last.outcome.hits[i].has_source
    /\ \E i \in DOMAIN last.outcome.hits :
         last.outcome.hits[i]._source["@timestamp"] = Some(TsGarbage)
    /\ last.result.mock

\* C2: constructing a connector never raises; if creating the client or the
\* ping raises, or the ping returns false, the connector is disconnected; a
\* disconnected connector answers every get_data with a synthetic Dataset and
\* without a search, and it never becomes connected.
C2_DisconnectedDegrades ==
    /\ [](conn.exists => ~conn.raised)
    /\ []((conn.exists /\ (probe.client = "raise" \/ probe.ping \in {"raise", "false"}))
            => ~conn.connected)
    /\ []((conn.exists /\ ~conn.connected /\ last.called) =>
            /\ ~last.result.raised
            /\ last.result.mock
            /\ ~last.result.searched
            /\ last.result.query = NoQuery)
    /\ [][(conn.exists /\ ~conn.connected /\ conn'.id = conn.id) => ~conn'.connected]_vars

C2_Witness ==
    /\ conn.exists
    /\ probe.client = "ok"
    /\ probe.ping = "raise"
    /\ last.called
    /\ last.token = "All"
    /\ now > 0

\* C3 (as claimed): a search for the token "All" has no lower bound on the
\* timestamp, or one below the lower bound of every other token.
C3_AllHasNoLowerBound ==
    (last.called /\ last.result.searched /\ last.token = "All") =>
        \/ last.result.query.range.gte = Absent
        \/ last.result.query.range.gte[1].day < last.at - 365

\* C4: for the tokens 7d, 30d, 90d and 1y the query window ends at now and
\* starts 7, 30, 90 and 365 days before it, so start <= end, and the window is
\* a function of the token and the time of the call.
C4_Window ==
    (last.called /\ last.result.searched /\ last.token \in {"7d", "30d", "90d", "1y"}) =>
        LET days == CASE last.token = "7d" -> 7
                      [] last.token = "30d" -> 30
                      [] last.token = "90d" -> 90
                      [] last.token = "1y" -> 365
            range == last.result.query.range
        IN  /\ range.lte = Some(IsoFormat(last.at))
            /\ range.gte = Some(IsoFormat(last.at - days))
            /\ range.gte[1].day <= range.lte[1].day

C4_Witness ==
    /\ last.called
    /\ last.result.searched
    /\ last.token = "90d"
    /\ last.at > 0

----------------------------------------------------------------------------
(* The Record Normalizer on its own: one document, flattened *)

\* the values a key of a backend document takes in the model
ValuesOf(key) ==
    IF key = "@timestamp" THEN {TsNone, TsGarbage, IsoFormat(0)}
    ELSE IF key = "Score" THEN {7}
    ELSE IF key = "hasCisa" THEN {TRUE, FALSE}
    ELSE {"HIGH", "LOW", None_}

\* the documents with at most n keys
RECURSIVE DocsUpTo(_)
DocsUpTo(n) ==
    IF n = 0 THEN {EmptyDoc}
    ELSE LET smaller == DocsUpTo(n - 1)
         IN  smaller \cup
             UNION {UNION {{[d EXCEPT ![k] = Some(v)] : v \in ValuesOf(k)} :
                             k \in {key \in DocKeys : d[key] = Absent}} :
                    d \in smaller}

InitNorm ==
    /\ source \in DocsUpTo(MaxDocKeys)
    /\ flat_data = Absent
    /\ ConnIdle /\ PageIdle /\ TopIdle

\* flat_data = {...}; data.append(flat_data)
Normalize ==
    /\ flat_data = Absent
    /\ flat_data' = Some(FlatData(source))
    /\ UNCHANGED <<source, connVars, pageVars, topVars>>

NextNorm == Normalize

SpecNorm == InitNorm /\ [][NextNorm]_vars

\* C5: each categorical field of the flat record is the document's
\* "<field>.keyword" value when that key is present (also when the plain key
\* is present too), else the plain "<field>" value when present, else
\* "UNKNOWN"; for a document with neither key it is not null.
C5_KeywordThenPlainThenUnknown ==
    flat_data # Absent =>
        \A i \in DOMAIN CatFields :
            LET f == CatFields[i]
                v == Field(flat_data[1], f)
            IN  /\ source[Keyword(f)] # Absent => v = source[Keyword(f)][1]
                /\ (source[Keyword(f)] = Absent /\ source[f] # Absent) => v = source[f][1]
                /\ (source[Keyword(f)] = Absent /\ source[f] = Absent) =>
                      (v = UNKNOWN /\ v # None_)

C5_Witness ==
    /\ flat_data # Absent
    /\ source["Sektor.keyword"] = Some("HIGH")
    /\ source["Sektor"] = Some("LOW")
    /\ flat_data[1].Sektor = "HIGH"
    /\ flat_data[1].Severity = UNKNOWN

----------------------------------------------------------------------------
(* Top-N: df[field].value_counts().head(n) *)

HeadOrgs == 10
HeadAssets == 5
HeadVulns == 5

Min(a, b) == IF a < b THEN a ELSE b

\* Series.head(n)
HeadRows(s, n) == SubSeq(s, 1, Min(n, Len(s)))

\* the number of rows of the column with value v
CountOf(col, v) == Cardinality({i \in DOMAIN col : col[i] = v})

\* the distinct values value_counts counts: nulls are dropped (dropna=True)
Uniques(col) == {col[i] : i \in DOMAIN col} \ {None_}

FirstIndex(col, v) == CHOOSE i \in DOMAIN col : col[i] = v /\ \A j \in 1..(i - 1) : col[j] # v

\* the first n entries of the orders value_counts can give the values S: by
\* count, descending.  The sort is sort_values' default (quicksort), which is
\* not stable: values with equal counts come in any order.
RECURSIVE SortedHeads(_, _, _)
SortedHeads(col, S, n) ==
    IF S = {} \/ n = 0 THEN {<<>>}
    ELSE LET best == {v \in S : \A w \in S : CountOf(col, w) <= CountOf(col, v)}
         IN  UNION {{<<[value |-> v, count |-> CountOf(col, v)]>> \o rest :
                        rest \in SortedHeads(col, S \ {v}, n - 1)} : v \in best}

\* the same without the sort: the values in the order they are first met
RECURSIVE UnsortedHeads(_, _, _)
UnsortedHeads(col, S, n) ==
    IF S = {} \/ n = 0 THEN {<<>>}
    ELSE LET v == CHOOSE x \in S : \A w \in S : FirstIndex(col, x) <= FirstIndex(col, w)
         IN  {<<[value |-> v, count |-> CountOf(col, v)]>> \o rest :
                 rest \in UnsortedHeads(col, S \ {v}, n - 1)}

\* the tables col.value_counts().head(n) can be
TopNNoSort(col, n) == UnsortedHeads(col, Uniques(col), n)

TopN(col, n) == SortedHeads(col, Uniques(col), n)

\* The columns of the model, up to a renaming of their values: the k-th new
\* value of a column is Labels[k]; a row may also hold a null.
Labels == <<"A", "B", "C", "D", "E", "F", "G", "H", "I">>

ColumnExt(s) ==
    {Append(s, None_)}
    \cup {Append(s, Labels[j]) : j \in 1..Min(Cardinality(Uniques(s)) + 1, Len(Labels))}

RECURSIVE ColumnsOfLen(_)
ColumnsOfLen(n) ==
    IF n = 0 THEN {<<>>}
    ELSE UNION {ColumnExt(s) : s \in ColumnsOfLen(n - 1)}

Columns == UNION {ColumnsOfLen(n) : n \in 0..MaxCol}

\* the scenario of the specification: A x5, B x5, C x3
ScenarioColumn == <<"A", "B", "A", "B", "C", "A", "B", "C", "A", "B", "C", "A", "B">>

InitTopN ==
    /\ column \in Columns \cup {ScenarioColumn}
    /\ head_n \in {HeadOrgs, HeadAssets, HeadVulns} \cup 1..MaxSmallN
    /\ top = Absent
    /\ ConnIdle /\ NormIdle /\ PageIdle

\* top = df[field].value_counts().head(n)
ValueCountsHead ==
    /\ top = Absent
    /\ \E table \in TopN(column, head_n) : top' = Some(table)
    /\ UNCHANGED <<column, head_n, connVars, normVars, pageVars>>

NextTopN == ValueCountsHead

SpecTopN == InitTopN /\ [][NextTopN]_vars

----------------------------------------------------------------------------
(* The page scripts.  Streamlit runs a page's script from its first line on  *)
(* every interaction with one of its widgets; neither script caches the      *)
(* connector or the Dataset (no st.cache_*, no st.session_state).            *)

\* the selectbox of each page, and its default (index=1 on Home, index=0 on Detail)
TimeRanges(p) == IF p = "home" THEN {"30d", "90d", "1y", "All"} ELSE {"30d", "90d", "1y"}
DefaultRange(p) == IF p = "home" THEN "90d" ELSE "30d"

\* connector = ELKConnector(): line 52 of both scripts, run by every script run
RunConstructCached(r) ==
    IF r.constructions = 0 THEN [r EXCEPT !.constructions = 1] ELSE r

RunConstruct(r) == [r EXCEPT !.constructions = @ + 1]

\* df = connector.get_data(time_range=time_range), run by every script run
RunGetData(r) == [r EXCEPT !.get_data_calls = @ + 1]

\* df.empty
DfEmptyNever(rows) == FALSE

DfEmpty(rows) == Len(rows) = 0

\* df[field]
ColumnOf(rows, field) == [i \in DOMAIN rows |-> Field(rows[i], field)]

\* sorted(df[field].unique().tolist()): the options of a multiselect (as a set)
Options(rows, field) == Range(ColumnOf(rows, field))

\* the values the three multiselects can hold in a run: the defaults on the
\* first run of the page, any subsets of the options after an interaction
Selections(rows, ev) ==
    IF ev = "load"
    THEN {[sectors |-> Options(rows, "Sektor"),
           severities |-> Options(rows, "Severity"),
           orgs |-> {}]}
    ELSE {[sectors |-> a, severities |-> b, orgs |-> c] :
            a \in SUBSET Options(rows, "Sektor"),
            b \in SUBSET Options(rows, "Severity"),
            c \in SUBSET Options(rows, "Organisasi")}

\* filtered_df with the organisation mask applied also when nothing is selected
ApplyFiltersOrgAlways(rows, sel) ==
    SelectSeq(rows, LAMBDA r : /\ r.Sektor \in sel.sectors
                               /\ r.Severity \in sel.severities
                               /\ r.Organisasi \in sel.orgs)

\* filtered_df = df[isin(sectors) & isin(severities)]; if selected_orgs: ...
ApplyFilters(rows, sel) ==
    LET filtered_df == SelectSeq(rows, LAMBDA r : /\ r.Sektor \in sel.sectors
                                                  /\ r.Severity \in sel.severities)
    IN  IF sel.orgs # {}
        THEN SelectSeq(filtered_df, LAMBDA r : r.Organisasi \in sel.orgs)
        ELSE filtered_df

severity_order == <<"CRITICAL", "HIGH", "MEDIUM", "LOW">>

\* the number of rows of a (Sektor, Severity) group
GroupSize(rows, sektor, severity) ==
    Cardinality({i \in DOMAIN rows : rows[i].Sektor = sektor /\ rows[i].Severity = severity})

\* the pivot without the reindex: a column for every severity in the data
HeatmapPivotNoReindex(rows) ==
    LET groups == {<<rows[i].Sektor, rows[i].Severity>> : i \in DOMAIN rows}
        index == {g[1] : g \in groups}
        found == {g[2] : g \in groups}
        columns == SelectSeq(severity_order \o <<UNKNOWN>>, LAMBDA c : c \in found)
    IN  [index |-> index,
         columns |-> columns,
         cells |-> [s \in index |-> [c \in Range(columns) |-> GroupSize(rows, s, c)]]]

\* groupby(['Sektor', 'Severity']).size(), pivot(...).fillna(0),
\* reindex(columns=[c for c in severity_order if c in columns], fill_value=0);
\* the rows of the table are a set here (pandas sorts them by label)
HeatmapPivot(rows) ==
    LET groups == {<<rows[i].Sektor, rows[i].Severity>> : i \in DOMAIN rows}
        index == {g[1] : g \in groups}
        found == {g[2] : g \in groups}
        columns == SelectSeq(severity_order, LAMBDA c : c \in found)
    IN  [index |-> index,
         columns |-> columns,
         cells |-> [s \in index |-> [c \in Range(columns) |-> GroupSize(rows, s, c)]]]

\* what the Detail script renders below the empty check
DetailView(rows, sel) ==
    LET filtered_df == ApplyFilters(rows, sel)
    IN  [rendered |-> <<"filters", "count", "heatmap", "box", "table", "download">>,
         halted |-> FALSE,
         filtered |-> filtered_df,
         heatmap |-> HeatmapPivot(filtered_df),
         top_orgs |-> <<>>, top_assets |-> <<>>, top_vulns |-> <<>>,
         timeline |-> NoTimeline]

\* the rows whose timestamp is a point in time (not NaT)
Dated(rows) == {i \in DOMAIN rows : rows[i].ts.kind = "datetime"}

\* one entry per day from day lo to day hi, with the number of dated rows of that day
DailyCounts(rows, lo, hi) ==
    [k \in 1..(hi - lo + 1) |->
        [day |-> lo + k - 1,
         count |-> Cardinality({i \in Dated(rows) : rows[i].ts.day = lo + k - 1})]]

\* df.set_index('@timestamp').resample('D').size().reset_index(name='Count'):
\* the bins run from the earliest to the latest timestamp; a row whose
\* timestamp is NaT falls in no bin.  With no timestamp but NaT there is no
\* earliest day: the resample raises or gives an empty series.
Timeline(rows) ==
    IF Dated(rows) = {}
    THEN {[raised |-> TRUE, series |-> <<>>], [raised |-> FALSE, series |-> <<>>]}
    ELSE LET days == {rows[i].ts.day : i \in Dated(rows)}
             lo == CHOOSE d \in days : \A e \in days : d <= e
             hi == CHOOSE d \in days : \A e \in days : e <= d
         IN  {[raised |-> FALSE, series |-> DailyCounts(rows, lo, hi)]}

\* what the Home script renders below the empty check; an exception of the
\* resample ends the script before the timeline chart
HomeView(rows, top_orgs, top_assets, top_vulns, timeline) ==
    [rendered |-> <<"sector_metrics", "kpis", "severity", "pie", "top_orgs",
                    "top_assets", "top_vulns">>
                  \o (IF \E i \in DOMAIN rows : rows[i].hasCisa THEN <<"cisa">> ELSE <<>>)
                  \o (IF timeline.raised THEN <<"exception">> ELSE <<"timeline">>),
     halted |-> FALSE,
     filtered |-> <<>>,
     heatmap |-> NoHeatmap,
     top_orgs |-> top_orgs, top_assets |-> top_assets, top_vulns |-> top_vulns,
     timeline |-> timeline]

\* st.error(...); st.stop()
ErrorView == [NoView EXCEPT !.rendered = <<"error">>, !.halted = TRUE]

\* what stays on the screen when the script has ended
Screen(v) == [NoView EXCEPT !.rendered = v.rendered, !.halted = v.halted]

\* the first statements of a script run: the connector is constructed
StartRun(p, ev, tr, r) ==
    /\ page' = p
    /\ event' = ev
    /\ time_range' = tr
    /\ runs' = RunConstruct(r)
    /\ \E client \in ClientOutcomes, ping \in PingOutcomes :
         /\ conn' = ELKConnectorInit(1, client, ping)
         /\ probe' = [client |-> client, ping |-> ping]
    /\ pc' = "fetch"
    /\ df' = <<>>
    /\ selection' = NoSelection
    /\ view' = NoView
    /\ UNCHANGED <<now, last, normVars, topVars>>

\* the page is opened (or switched to): its script runs with the widget defaults
OpenHome == pc = "idle" /\ StartRun("home", "load", DefaultRange("home"), NoRuns)

OpenDetail == pc = "idle" /\ StartRun("detail", "load", DefaultRange("detail"), NoRuns)

\* the user picks another time range: the script of the page runs again
ChangeTimeRange ==
    /\ pc = "idle"
    /\ page # "none"
    /\ \E tr \in TimeRanges(page) \ {time_range} :
         StartRun(page, "time_range", tr, NoRuns)

\* the user changes a multiselect of the Detail page: its script runs again
ChangeFilter ==
    /\ pc = "idle"
    /\ page = "detail"
    /\ ~view.halted
    /\ runs.filter_changes < MaxFilterChanges
    /\ StartRun(page, "filter", time_range,
                [runs EXCEPT !.filter_changes = @ + 1])

\* df = connector.get_data(time_range=time_range); if df.empty: error, stop
Fetch(hitSet) ==
    /\ pc = "fetch"
    /\ \E outcome \in SearchOutcomes(hitSet), mock \in MockData(now) :
         LET result == GetData(conn, time_range, now, outcome, mock)
         IN  /\ last' = [called |-> TRUE, token |-> time_range, at |-> now,
                         outcome |-> outcome, result |-> result]
             /\ df' = result.rows
             /\ IF DfEmpty(result.rows)
                THEN view' = ErrorView /\ pc' = "done"
                ELSE view' = view /\ pc' = "render"
    /\ runs' = RunGetData(runs)
    /\ UNCHANGED <<conn, probe, now, page, event, time_range, selection,
                   normVars, topVars>>

\* Detail page: the multiselects, the filters and what is drawn from them
RenderDetail ==
    /\ pc = "render"
    /\ page = "detail"
    /\ \E sel \in Selections(df, event) :
         /\ selection' = sel
         /\ view' = DetailView(df, sel)
    /\ pc' = "done"
    /\ UNCHANGED <<connVars, page, event, time_range, df, runs, normVars, topVars>>

\* Home page: the metrics and the charts
RenderHome ==
    /\ pc = "render"
    /\ page = "home"
    /\ \E top_orgs \in TopN(ColumnOf(df, "Organisasi"), HeadOrgs),
          top_assets \in TopN(ColumnOf(df, "Source"), HeadAssets),
          top_vulns \in TopN(ColumnOf(df, "Vuln"), HeadVulns),
          timeline \in Timeline(df) :
         view' = HomeView(df, top_orgs, top_assets, top_vulns, timeline)
    /\ pc' = "done"
    /\ UNCHANGED <<connVars, page, event, time_range, df, selection, runs,
                   normVars, topVars>>

\* the script has ended: its variables are gone, the widgets keep their state
EndRun ==
    /\ pc = "done"
    /\ pc' = "idle"
    /\ df' = <<>>
    /\ last' = NoCall
    /\ selection' = NoSelection
    /\ view' = Screen(view)
    /\ UNCHANGED <<conn, probe, now, page, event, time_range, runs, normVars, topVars>>

\* documents of the pages' Datasets: two sectors, a severity that is MEDIUM,
\* LOW or missing, and two organisations
PageDoc(sektor, sev, org) ==
    [EmptyDoc EXCEPT !["@timestamp"] = Some(IsoFormat(0)),
                     !["Sektor.keyword"] = Some(sektor),
                     !["Severity.keyword"] = sev,
                     !["Organisasi.keyword"] = Some(org)]

PageDocs ==
    {PageDoc(sektor, sev, orgs[3]) :
        sektor \in {sectors[2], sectors[8]},
        sev \in {Some(severities[3]), Some(severities[4]), Absent}}
    \cup {PageDoc(sektor, Some(severities[3]), orgs[8]) :
            sektor \in {sectors[2], sectors[8]}}

PageHits == {Hit(d) : d \in PageDocs}

\* two of them, for the specification of the reruns
FewHits == {Hit(PageDoc(sectors[2], Some(severities[3]), orgs[3])),
            Hit(PageDoc(sectors[8], Some(severities[4]), orgs[8]))}

\* the Detail page over the Datasets of PageDocs
NextDetail ==
    \/ OpenDetail
    \/ ChangeFilter
    \/ Fetch(PageHits)
    \/ RenderDetail
    \/ EndRun

SpecDetail == Init /\ [][NextDetail]_vars

\* both pages and every interaction, over few documents
NextPages ==
    \/ OpenHome
    \/ OpenDetail
    \/ ChangeTimeRange
    \/ ChangeFilter
    \/ Fetch(FewHits)
    \/ RenderDetail
    \/ RenderHome
    \/ EndRun

SpecPages == Init /\ [][NextPages]_vars

----------------------------------------------------------------------------
(* Claims about the pages *)

DetailRendered == page = "detail" /\ pc = "done" /\ ~view.halted

\* C6: the records the Detail page displays are exactly the records of the
\* Dataset (in its order) whose sector is selected and whose severity is
\* selected and, only when some organisation is selected, whose organisation
\* is selected: no sector or no severity selected displays nothing, no
\* organisation selected filters nothing.
C6_DisplayedRecords ==
    DetailRendered =>
        LET passes(r) == /\ r.Sektor \in selection.sectors
                         /\ r.Severity \in selection.severities
                         /\ (selection.orgs # {} => r.Organisasi \in selection.orgs)
            both(r) == r.Sektor \in selection.sectors /\ r.Severity \in selection.severities
        IN  /\ view.filtered = SelectSeq(df, passes)
            /\ (selection.sectors = {} \/ selection.severities = {}) => view.filtered = <<>>
            /\ selection.orgs = {} => view.filtered = SelectSeq(df, both)

C6_Witness ==
    /\ DetailRendered
    /\ event = "filter"
    /\ selection.orgs = {}
    /\ Len(view.filtered) = 2
    /\ view.filtered[1].Organisasi # view.filtered[2].Organisasi

\* C7 (as claimed): between two time-range changes of the Detail page, filter
\* changes cause no connector construction and no get_data call beyond the
\* ones of the time-range change itself.
C7_FilterChangeDoesNotRefetch ==
    page = "detail" => (runs.constructions <= 1 /\ runs.get_data_calls <= 1)

\* C7 (amended): every filter change runs the Detail script again from its
\* first line: it constructs one more connector and makes one more get_data
\* call, with the time-range token unchanged.
C7_FilterChangeReruns ==
    /\ []((page = "detail" /\ pc = "done") =>
            /\ runs.constructions = 1 + runs.filter_changes
            /\ runs.get_data_calls = 1 + runs.filter_changes
            /\ last.called
            /\ last.token = time_range)
    /\ [][(pc = "idle" /\ pc' = "fetch" /\ event' = "filter") =>
            /\ time_range' = time_range
            /\ runs'.constructions = runs.constructions + 1
            /\ runs'.filter_changes = runs.filter_changes + 1]_vars

C7_Witness ==
    /\ page = "detail"
    /\ pc = "done"
    /\ event = "filter"
    /\ runs.filter_changes = 1
    /\ runs.get_data_calls = 2
    /\ ~view.halted

\* C8: a search that succeeds with zero hits gives an empty Dataset, not a
\* synthetic one; a page that gets an empty Dataset shows the error and
\* stops: it renders nothing else.
C8_EmptyDatasetHalts ==
    /\ (pc \in {"render", "done"} /\ conn.connected /\ last.called
           /\ last.outcome.kind = "hits" /\ last.outcome.hits = <<>>) =>
          /\ ~last.result.raised
          /\ ~last.result.mock
          /\ df = <<>>
    /\ (pc \in {"render", "done"} /\ df = <<>>) =>
          /\ pc = "done"
          /\ view = ErrorView

C8_Witness ==
    /\ page = "home"
    /\ pc = "done"
    /\ conn.connected
    /\ last.outcome.kind = "hits"
    /\ last.outcome.hits = <<>>
    /\ view.halted

SeverityRank(c) == CHOOSE k \in DOMAIN severity_order : severity_order[k] = c

\* C9: the cross-tabulation has one row per sector of the filtered records;
\* its columns are the members of [CRITICAL, HIGH, MEDIUM, LOW] that occur in
\* the filtered records, in that order, and nothing else; each cell is the
\* number of filtered records of that sector and severity (0 when none).
C9_CrossTab ==
    DetailRendered =>
        LET f == view.filtered
            h == view.heatmap
            present == {f[i].Severity : i \in DOMAIN f}
        IN  /\ h.index = {f[i].Sektor : i \in DOMAIN f}
            /\ Range(h.columns) = present \cap {"CRITICAL", "HIGH", "MEDIUM", "LOW"}
            /\ \A i, j \in DOMAIN h.columns :
                  i < j => SeverityRank(h.columns[i]) < SeverityRank(h.columns[j])
            /\ \A s \in h.index :
                  /\ DOMAIN h.cells[s] = Range(h.columns)
                  /\ \A c \in Range(h.columns) :
                        h.cells[s][c] =
                           Cardinality({i \in DOMAIN f : f[i].Sektor = s /\ f[i].Severity = c})

C9_Witness ==
    /\ DetailRendered
    /\ view.heatmap.columns = <<"MEDIUM", "LOW">>
    /\ Cardinality(view.heatmap.index) = 2
    /\ \E s \in view.heatmap.index : view.heatmap.cells[s]["LOW"] = 0

----------------------------------------------------------------------------
(* Claims about Top-N, checked under SpecTopN *)

TopNCommon(t) ==
    /\ Len(t) <= head_n
    /\ \A i, j \in DOMAIN t : i # j => t[i].value # t[j].value
    /\ \A i \in DOMAIN t :
          /\ CountOf(column, t[i].value) > 0
          /\ t[i].count = CountOf(column, t[i].value)
    /\ \A i, j \in DOMAIN t : i < j => t[i].count >= t[j].count
    /\ \A v \in Uniques(column) \ {t[i].value : i \in DOMAIN t} :
          \A i \in DOMAIN t : CountOf(column, v) <= t[i].count

\* C10 (as claimed): at most N distinct values with their exact counts, by
\* count descending, values of equal count in first-encountered order, and
\* no value left out has a higher count than a value included.
C10_TopNFirstEncounteredTies ==
    top # Absent =>
        /\ TopNCommon(top[1])
        /\ \A i, j \in DOMAIN top[1] :
              (i < j /\ top[1][i].count = top[1][j].count) =>
                 FirstIndex(column, top[1][i].value) < FirstIndex(column, top[1][j].value)

\* C10 (amended): the same, with values of equal count in no particular order.
C10_TopN ==
    top # Absent => TopNCommon(top[1])

C10_Witness ==
    /\ top # Absent
    /\ head_n = HeadAssets
    /\ Cardinality(Uniques(column)) > head_n
    /\ Len(top[1]) = head_n
    /\ top[1][1].count = 2
    /\ top[1][2].count = 1

----------------------------------------------------------------------------
(* The Home page over Datasets whose records differ in their timestamp *)

\* documents with a timestamp of one of the days 0..MaxNow, or without one
TimeDocs ==
    {[EmptyDoc EXCEPT !["@timestamp"] = ts] :
        ts \in {Absent} \cup {Some(IsoFormat(d)) : d \in 0..MaxNow}}

TimeHits == {Hit(d) : d \in TimeDocs}

NextHome ==
    \/ OpenHome
    \/ ChangeTimeRange
    \/ Fetch(TimeHits)
    \/ RenderHome
    \/ EndRun

SpecHome == Init /\ [][NextHome]_vars

HomeRendered == page = "home" /\ pc = "done" /\ ~view.halted

\* C11: the timeline of the Home page has exactly one entry for every day
\* from the earliest to the latest record date, each with the number of
\* records of that day (0 for a day without records), and its counts add up
\* to the number of records of the Dataset.
C11_TimelineDense ==
    HomeRendered =>
        LET series == view.timeline.series
            total[k \in 0..Len(series)] ==
                IF k = 0 THEN 0 ELSE total[k - 1] + series[k].count
        IN  /\ ~view.timeline.raised
            /\ \A k \in DOMAIN series :
                  /\ series[k].count =
                        Cardinality({i \in DOMAIN df : df[i].ts.kind = "datetime"
                                                        /\ df[i].ts.day = series[k].day})
                  /\ k > 1 => series[k].day = series[k - 1].day + 1
            /\ \A i \in DOMAIN df :
                  df[i].ts.kind = "datetime" =>
                     \E k \in DOMAIN series : series[k].day = df[i].ts.day
            /\ series # <<>> =>
                  /\ \E i \in DOMAIN df : df[i].ts.kind = "datetime"
                                          /\ df[i].ts.day = series[1].day
                  /\ \E i \in DOMAIN df : df[i].ts.kind = "datetime"
                                          /\ df[i].ts.day = series[Len(series)].day
            /\ total[Len(series)] = Len(df)

====
